---------------------------- MODULE Spec2Model ----------------------------
(***************************************************************************)
(* A model of app.py: the Streamlit script that resolves a channel's       *)
(* uploads playlist, lists the videos published in a trailing window,      *)
(* fetches their statistics in batches and renders a top-3 list, a chart   *)
(* and a table.  The three fetch functions are memoized by                 *)
(* st.cache_data(ttl=...).  The YouTube platform is the environment: each  *)
(* remote request is answered nondeterministically.                        *)
(*                                                                         *)
(* Instants are integers counted in seconds (UTC); the ISO-8601 text of a  *)
(* publishedAt field is represented by the instant it denotes.  Rows keep  *)
(* the columns video_id, view_count, like_count (title and published_at    *)
(* are carried through the code untouched and are left out).               *)
(***************************************************************************)
EXTENDS Integers, Sequences, FiniteSets, TLC

VARIABLES
    clock,            \* datetime.now(timezone.utc), in seconds
    runs,             \* how many times the button has been pressed
    pc,               \* where the script run stands
    playlist,         \* the platform: uploads playlist id -> sequence of pages
    channel,          \* CHANNEL_ID of the current run
    days,             \* the slider's value in the current run
    uploads_id,       \* uploads_id (line 128)
    published_after,  \* get_recent_video_ids: the cutoff (line 50)
    video_ids,        \* get_recent_video_ids: video_ids, then the script's video_ids
    next_page_token,  \* get_recent_video_ids: next_page_token (0 is None)
    rows,             \* get_video_stats: rows
    i,                \* get_video_stats: the loop index i
    df,               \* the script's df, then the rendered frame
    ui,               \* what the page shows
    log,              \* the remote requests issued in the current run, with their outcomes
    cache_uploads,    \* st.cache_data store of get_uploads_playlist_id
    cache_ids,        \* st.cache_data store of get_recent_video_ids
    cache_stats,      \* st.cache_data store of get_video_stats
    hist,             \* history: the last computed call per function and key
    called_at         \* history: the instant the latest of the three functions was called

vars == <<clock, runs, pc, playlist, channel, days, uploads_id,
          published_after, video_ids, next_page_token, rows, i, df, ui, log,
          cache_uploads, cache_ids, cache_stats, hist, called_at>>

----------------------------------------------------------------------------
(* Bounds of the model *)

MaxRuns == 2          \* button presses in one behaviour
MaxItems == 3         \* playlist length when get_recent_video_ids is taken alone
MaxN == 120           \* input length when get_video_stats is taken alone
MaxRows == 4          \* table length when the rendering is taken alone

----------------------------------------------------------------------------
(* Program constants *)

Minute == 60
Day == 24 * 60 * 60                 \* timedelta(days=1), in seconds
TTL_UPLOADS == 24 * 60 * 60         \* @st.cache_data(ttl=24 * 60 * 60)
TTL_IDS == 60 * 30                  \* @st.cache_data(ttl=60 * 30)
TTL_STATS == 60 * 30                \* @st.cache_data(ttl=60 * 30)
BatchSize == 50                     \* range(0, len(video_ids), 50)
SliderMin == 1                      \* st.slider(..., 1, 15, 5)
SliderMax == 15
TopN == 3                           \* .head(3)

CHANNEL_OPTIONS == {"UC8T8_deSUS97DWZeKO_TL9Q", "UCip8ve30-AoX2y2OtAAmqFA"}

InvalidChannelMsg == "invalid channel id"      \* ValueError("チャンネルIDが不正です")
RequestFailedMsg == "request failed"           \* str(e) of any other exception

----------------------------------------------------------------------------
(* Small helpers *)

Min2(a, b) == IF a <= b THEN a ELSE b

Range(s) == {s[k] : k \in DOMAIN s}

RECURSIVE Flatten(_)
Flatten(ss) == IF ss = <<>> THEN <<>> ELSE Head(ss) \o Flatten(Tail(ss))

RECURSIVE Gcd(_, _)
Gcd(a, b) == IF b = 0 THEN a ELSE Gcd(b, a % b)

----------------------------------------------------------------------------
(* The platform (YouTube Data API v3), as the script sees it *)

\* The uploads playlist the platform reports for a channel.
UploadsOf(c) == IF c = "UC8T8_deSUS97DWZeKO_TL9Q" THEN "UU8T8" ELSE "UUip8"

UploadsIds == {UploadsOf(c) : c \in CHANNEL_OPTIONS}

\* youtube.channels().list(...).execute(): the response when the platform
\* knows the channel, and when it matches no channel.
ChannelsResponse(c, outcome) ==
    IF outcome = "ok" THEN [items |-> <<UploadsOf(c)>>] ELSE [items |-> <<>>]

\* youtube.playlistItems().list(..., pageToken=token).execute(): page token
\* None (0) is the first page; a page carries nextPageToken unless it is the
\* last one.
PlaylistItemsResponse(pl, token) ==
    LET p == IF token = 0 THEN 1 ELSE token
    IN  [items |-> pl[p],
         nextPageToken |-> IF p < Len(pl) THEN p + 1 ELSE 0]

\* Statistics the platform holds for a video.  A video whose like count is
\* hidden has no likeCount key.
PlatformStatistics(id) ==
    CASE id = 1 -> [viewCount |-> 1000, likeCount |-> 50]
      [] id = 2 -> [viewCount |-> 500, likeCount |-> 20]
      [] id = 3 -> [viewCount |-> 10000, likeCount |-> 5]
      [] id = 4 -> [viewCount |-> 0]
      [] OTHER  -> [viewCount |-> 100 * id, likeCount |-> id]

\* The identifiers of a chunk the platform answers for, once each, in request
\* order: all of them, none of them (deleted or private), or the odd ones.
RECURSIVE Answered(_, _, _)
Answered(chunk, policy, seen) ==
    IF chunk = <<>> THEN <<>>
    ELSE LET id == Head(chunk)
             keep == /\ id \notin seen
                     /\ \/ policy = "all"
                        \/ policy = "odd" /\ id % 2 = 1
         IN  (IF keep THEN <<id>> ELSE <<>>)
                 \o Answered(Tail(chunk), policy, seen \cup {id})

\* youtube.videos().list(id=",".join(chunk)).execute()
VideosResponse(chunk, policy) ==
    LET ids == Answered(chunk, policy, {})
    IN  [items |-> [k \in DOMAIN ids |->
                       [id |-> ids[k], statistics |-> PlatformStatistics(ids[k])]]]

----------------------------------------------------------------------------
(* st.cache_data(ttl=...): entries [key, value, stored]; an entry answers a *)
(* call while the clock is before stored + ttl.                             *)

\* A lookup that forgets the time-to-live.
C7_CacheHitNoExpiry(cache, key, ttl, now) ==
    {e \in cache : e.key = key}

CacheHit(cache, key, ttl, now) ==
    {e \in cache : e.key = key /\ now < e.stored + ttl}

CachePut(cache, key, value, now) ==
    {e \in cache : e.key # key} \cup {[key |-> key, value |-> value, stored |-> now]}

\* The history of computed calls: like the cache, plus the instant the
\* computing call started; never expires.
HistPut(h, key, value, started, now) ==
    {e \in h : e.key # key}
        \cup {[key |-> key, value |-> value, t |-> now, started |-> started]}

----------------------------------------------------------------------------
(* get_uploads_playlist_id (lines 33-43) *)

\* The body without the check of line 40.
C5_UploadsUnchecked(res) ==
    [raised |-> FALSE, value |-> IF Len(res.items) = 0 THEN "" ELSE res.items[1]]

\* The body of get_uploads_playlist_id on a response: the uploads playlist
\* id, or the ValueError.
UploadsFromResponse(res) ==
    IF Len(res.items) = 0
    THEN [raised |-> TRUE, value |-> ""]
    ELSE [raised |-> FALSE, value |-> res.items[1]]

----------------------------------------------------------------------------
(* get_recent_video_ids (lines 48-77) *)

\* published_after = datetime.now(timezone.utc) - timedelta(days=days)
Cutoff(now, d) == now - d * Day

\* The loop with lines 68 and 71 exchanged: the item is appended before its
\* publication instant is compared.
RECURSIVE C1_ScanItemsLate(_, _, _)
C1_ScanItemsLate(items, ids, cutoff) ==
    IF items = <<>> THEN [returned |-> FALSE, video_ids |-> ids]
    ELSE LET more == Append(ids, Head(items).videoId)
         IN  IF Head(items).publishedAt < cutoff
             THEN [returned |-> TRUE, video_ids |-> more]
             ELSE C1_ScanItemsLate(Tail(items), more, cutoff)

\* The for loop over one page (lines 63-71): append the identifiers of the
\* items up to the first one published strictly before the cutoff, at which
\* the function returns.
RECURSIVE ScanItems(_, _, _)
ScanItems(items, ids, cutoff) ==
    IF items = <<>> THEN [returned |-> FALSE, video_ids |-> ids]
    ELSE IF Head(items).publishedAt < cutoff
         THEN [returned |-> TRUE, video_ids |-> ids]
         ELSE ScanItems(Tail(items), Append(ids, Head(items).videoId), cutoff)

\* The iteration with `break` in place of the `return` of line 69: the scan
\* of the page stops, the pagination goes on.
C2_PageOutcomeNoEarlyExit(ids, cutoff, res) ==
    LET scan == ScanItems(res.items, ids, cutoff)
    IN  [returned |-> res.nextPageToken = 0,
         video_ids |-> scan.video_ids,
         next_page_token |-> res.nextPageToken]

\* The iteration without lines 74-75: a missing token does not end the loop.
C9_PageOutcomeNoBreak(ids, cutoff, res) ==
    LET scan == ScanItems(res.items, ids, cutoff)
    IN  [returned |-> scan.returned,
         video_ids |-> scan.video_ids,
         next_page_token |-> res.nextPageToken]

\* One iteration of the while loop on a page response (lines 63-77): whether
\* the function returns, with which video_ids, and the next page token.
PageOutcome(ids, cutoff, res) ==
    LET scan == ScanItems(res.items, ids, cutoff)
    IN  [returned |-> scan.returned \/ res.nextPageToken = 0,
         video_ids |-> scan.video_ids,
         next_page_token |-> res.nextPageToken]

----------------------------------------------------------------------------
(* get_video_stats (lines 82-107) *)

\* The slice taken one identifier too long.
C3_ChunkOverlap(ids, at) == SubSeq(ids, at + 1, Min2(at + BatchSize + 1, Len(ids)))

\* chunk = video_ids[i:i+50]
Chunk(ids, at) == SubSeq(ids, at + 1, Min2(at + BatchSize, Len(ids)))

\* item["statistics"].get(key, 0)
StatGet(statistics, key) ==
    IF key \in DOMAIN statistics THEN statistics[key] ELSE 0

\* The rows appended for one response (lines 98-105).
RowsOf(res) ==
    [k \in DOMAIN res.items |->
        [video_id |-> res.items[k].id,
         view_count |-> StatGet(res.items[k].statistics, "viewCount"),
         like_count |-> StatGet(res.items[k].statistics, "likeCount")]]

----------------------------------------------------------------------------
(* Rendering (lines 132-236) *)

\* df["like_rate"] = df["like_count"] / df["view_count"]: the quotient as a
\* fraction in lowest terms; a zero view count gives inf (1/0) or NaN (0/0)
\* and raises nothing.
LikeRate(like, view) ==
    IF view = 0 THEN [num |-> IF like = 0 THEN 0 ELSE 1, den |-> 0]
    ELSE LET g == Gcd(like, view) IN [num |-> like \div g, den |-> view \div g]

\* The frame after the derived columns are added (lines 143-148).
WithLikeRate(d) ==
    [k \in DOMAIN d |->
        [video_id |-> d[k].video_id,
         view_count |-> d[k].view_count,
         like_count |-> d[k].like_count,
         like_rate |-> LikeRate(d[k].like_count, d[k].view_count)]]

\* The sort without ascending=False.
RECURSIVE C10_SortValuesAsc(_, _)
C10_SortValuesAsc(d, left) ==
    IF left = {} THEN {<<>>}
    ELSE UNION {
           {<<k>> \o rest : rest \in C10_SortValuesAsc(d, left \ {k})} :
             k \in {m \in left : \A o \in left : d[m].view_count <= d[o].view_count}}

\* df.sort_values("view_count", ascending=False): the orders of the row
\* positions in `left` with non-increasing view_count.  The default sort is
\* not stable, so rows with equal view_count may come in any order.
RECURSIVE SortValuesDesc(_, _)
SortValuesDesc(d, left) ==
    IF left = {} THEN {<<>>}
    ELSE UNION {
           {<<k>> \o rest : rest \in SortValuesDesc(d, left \ {k})} :
             k \in {m \in left : \A o \in left : d[o].view_count <= d[m].view_count}}

\* .head(3)
HeadN(s, n) == SubSeq(s, 1, Min2(n, Len(s)))

\* top3_df, as row positions of df: every outcome of the sort, cut to three.
Top3(d) == {HeadN(order, TopN) : order \in SortValuesDesc(d, DOMAIN d)}

EmptyUI ==
    [errors |-> <<>>, warning |-> FALSE, success |-> 0,
     cards |-> <<>>, chart |-> FALSE, table |-> <<>>]

----------------------------------------------------------------------------
(* The script run, one action per step between remote requests *)

\* The time between two runs: ten minutes, half an hour or a day.  A run
\* itself is short against the ten minutes and takes no time.
Waits == {10 * Minute, 30 * Minute, Day}

\* st.button pressed (line 125), `wait` after the page was loaded or the
\* last run ended: the script reruns with the widgets' values; the page is
\* cleared.
Press(c, d, wait) ==
    /\ pc = "idle"
    /\ runs < MaxRuns
    /\ runs' = runs + 1
    /\ clock' = clock + wait
    /\ channel' = c
    /\ days' = d
    /\ uploads_id' = ""
    /\ published_after' = 0
    /\ video_ids' = <<>>
    /\ next_page_token' = 0
    /\ rows' = <<>>
    /\ i' = 0
    /\ df' = <<>>
    /\ ui' = EmptyUI
    /\ log' = <<>>
    /\ called_at' = clock + wait
    /\ pc' = "uploads"
    /\ UNCHANGED <<playlist, cache_uploads, cache_ids, cache_stats, hist>>

\* The error shown from inside the loop: the run goes on.
C6_ExceptContinue(msg) ==
    /\ ui' = [ui EXCEPT !.errors = Append(@, msg)]
    /\ pc' = pc

\* except Exception as e: st.error(str(e)) (lines 239-240); the run ends.
Except(msg) ==
    /\ ui' = [ui EXCEPT !.errors = Append(@, msg)]
    /\ pc' = "idle"

\* uploads_id = get_uploads_playlist_id(CHANNEL_ID) (line 128)
GetUploads(outcome) ==
    /\ pc = "uploads"
    /\ called_at' = clock
    /\ LET hit == CacheHit(cache_uploads, channel, TTL_UPLOADS, clock)
       IN  IF hit # {}
           THEN /\ outcome = "ok"
                /\ uploads_id' = (CHOOSE e \in hit : TRUE).value
                /\ pc' = "discover"
                /\ UNCHANGED <<ui, log, cache_uploads, hist>>
           ELSE /\ log' = Append(log, [kind |-> "channels", arg |-> channel,
                                          outcome |-> outcome])
                /\ IF outcome = "fail"
                   THEN /\ Except(RequestFailedMsg)
                        /\ UNCHANGED <<uploads_id, cache_uploads, hist>>
                   ELSE LET r == UploadsFromResponse(ChannelsResponse(channel, outcome))
                        IN  IF r.raised
                            THEN /\ Except(InvalidChannelMsg)
                                 /\ UNCHANGED <<uploads_id, cache_uploads, hist>>
                            ELSE /\ uploads_id' = r.value
                                 /\ cache_uploads' =
                                        CachePut(cache_uploads, channel, r.value, clock)
                                 /\ hist' = [hist EXCEPT !.uploads =
                                        HistPut(@, channel, r.value, clock, clock)]
                                 /\ pc' = "discover"
                                 /\ UNCHANGED ui
    /\ UNCHANGED <<clock, runs, playlist, channel, days,
                   published_after, video_ids, next_page_token, rows, i, df,
                   cache_ids, cache_stats>>

\* video_ids = get_recent_video_ids(uploads_id, days=days) (line 129): the
\* cache lookup and, on a miss, lines 50-53.
CallDiscovery ==
    /\ pc = "discover"
    /\ called_at' = clock
    /\ LET hit == CacheHit(cache_ids, <<uploads_id, days>>, TTL_IDS, clock)
       IN  IF hit # {}
           THEN /\ video_ids' = (CHOOSE e \in hit : TRUE).value
                /\ pc' = "stats_call"
                /\ UNCHANGED <<published_after, next_page_token>>
           ELSE /\ published_after' = Cutoff(clock, days)
                /\ video_ids' = <<>>
                /\ next_page_token' = 0
                /\ pc' = "page"
    /\ UNCHANGED <<clock, runs, playlist, channel, days, uploads_id,
                   rows, i, df, ui, log, cache_uploads, cache_ids, cache_stats,
                   hist>>

\* One iteration of the while loop of get_recent_video_ids (lines 55-77).
FetchPage(outcome) ==
    /\ pc = "page"
    /\ log' = Append(log, [kind |-> "playlistItems", arg |-> next_page_token,
                          outcome |-> outcome])
    /\ IF outcome = "fail"
       THEN /\ Except(RequestFailedMsg)
            /\ UNCHANGED <<video_ids, next_page_token, cache_ids, hist>>
       ELSE LET res == PlaylistItemsResponse(playlist[uploads_id], next_page_token)
                out == PageOutcome(video_ids, published_after, res)
            IN  /\ video_ids' = out.video_ids
                /\ next_page_token' = out.next_page_token
                /\ IF out.returned
                   THEN /\ cache_ids' = CachePut(cache_ids, <<uploads_id, days>>,
                                                 out.video_ids, clock)
                        /\ hist' = [hist EXCEPT !.ids =
                               HistPut(@, <<uploads_id, days>>, out.video_ids,
                                       called_at, clock)]
                        /\ pc' = "stats_call"
                   ELSE /\ pc' = "page"
                        /\ UNCHANGED <<cache_ids, hist>>
                /\ UNCHANGED ui
    /\ UNCHANGED <<clock, runs, playlist, channel, days, uploads_id,
                   published_after, rows, i, df, cache_uploads, cache_stats,
                   called_at>>

\* df = get_video_stats(video_ids) (line 130): the cache lookup and, on a
\* miss, lines 84-87.
CallStats ==
    /\ pc = "stats_call"
    /\ called_at' = clock
    /\ LET hit == CacheHit(cache_stats, video_ids, TTL_STATS, clock)
       IN  IF hit # {}
           THEN /\ df' = (CHOOSE e \in hit : TRUE).value
                /\ pc' = "render"
                /\ UNCHANGED <<rows, i, cache_stats, hist>>
           ELSE IF video_ids = <<>>
                THEN /\ df' = <<>>
                     /\ cache_stats' = CachePut(cache_stats, video_ids, <<>>, clock)
                     /\ hist' = [hist EXCEPT !.stats =
                            HistPut(@, video_ids, <<>>, clock, clock)]
                     /\ pc' = "render"
                     /\ UNCHANGED <<rows, i>>
                ELSE /\ rows' = <<>>
                     /\ i' = 0
                     /\ pc' = "batch"
                     /\ UNCHANGED <<df, cache_stats, hist>>
    /\ UNCHANGED <<clock, runs, playlist, channel, days, uploads_id,
                   published_after, video_ids, next_page_token, ui, log,
                   cache_uploads, cache_ids>>

\* One iteration of the for loop of get_video_stats (lines 90-107).
FetchBatch(policy) ==
    /\ pc = "batch"
    /\ LET chunk == Chunk(video_ids, i)
       IN  /\ log' = Append(log, [kind |-> "videos", arg |-> chunk, outcome |-> policy])
           /\ IF policy = "fail"
              THEN /\ Except(RequestFailedMsg)
                   /\ UNCHANGED <<rows, i, df, cache_stats, hist>>
              ELSE LET rs == rows \o RowsOf(VideosResponse(chunk, policy))
                   IN  /\ rows' = rs
                       /\ i' = i + BatchSize
                       /\ IF i + BatchSize >= Len(video_ids)
                          THEN /\ df' = rs
                               /\ cache_stats' =
                                      CachePut(cache_stats, video_ids, rs, clock)
                               /\ hist' = [hist EXCEPT !.stats =
                                      HistPut(@, video_ids, rs, called_at, clock)]
                               /\ pc' = "render"
                          ELSE /\ pc' = "batch"
                               /\ UNCHANGED <<df, cache_stats, hist>>
                       /\ UNCHANGED ui
    /\ UNCHANGED <<clock, runs, playlist, channel, days, uploads_id,
                   published_after, video_ids, next_page_token, cache_uploads,
                   cache_ids, called_at>>

\* Lines 132-236: the empty check, then the success message, the top-3
\* cards, the chart and the table.  st.stop() ends the run without reaching
\* the except clause.
Render ==
    /\ pc = "render"
    /\ pc' = "idle"
    /\ IF df = <<>>
       THEN /\ ui' = [ui EXCEPT !.warning = TRUE]
            /\ df' = df
       ELSE LET frame == WithLikeRate(df)
            IN  \E top \in Top3(frame) :
                  /\ df' = frame
                  /\ ui' = [ui EXCEPT !.success = Len(df),
                                      !.cards = [k \in DOMAIN top |-> frame[top[k]]],
                                      !.chart = TRUE,
                                      !.table = frame]
    /\ UNCHANGED <<clock, runs, playlist, channel, days, uploads_id,
                   published_after, video_ids, next_page_token, rows, i, log,
                   cache_uploads, cache_ids, cache_stats, hist, called_at>>

----------------------------------------------------------------------------
(* Initial states *)

Item(id, at) == [videoId |-> id, publishedAt |-> at]

\* The slider's values that are explored.
DaysChoices == {d \in SliderMin..SliderMax : d <= 2}

\* Playlists of the session, with instants relative to the session's start.
\* Two pages, one item per day.
PlaylistDaily ==
    << <<Item(1, 0 - 5 * Minute), Item(2, 15 * Minute - Day)>>,
       <<Item(3, 15 * Minute - 2 * Day), Item(4, 0 - 3 * Day)>> >>

\* Fifty-two recent items, fifty to a page, and an old one.
PlaylistLong ==
    << [k \in 1..50 |-> Item(k, 0 - k * Minute)],
       <<Item(51, 0 - 51 * Minute), Item(52, 0 - 52 * Minute), Item(53, 0 - 20 * Day)>> >>

SessionWorlds ==
    { [u \in UploadsIds |-> IF u = "UU8T8" THEN PlaylistDaily ELSE PlaylistLong] }

InitCommon ==
    /\ clock = 0
    /\ runs = 0
    /\ channel = "UC8T8_deSUS97DWZeKO_TL9Q"
    /\ uploads_id = UploadsOf(channel)
    /\ published_after = 0
    /\ next_page_token = 0
    /\ rows = <<>>
    /\ i = 0
    /\ ui = EmptyUI
    /\ log = <<>>
    /\ cache_uploads = {}
    /\ cache_ids = {}
    /\ cache_stats = {}
    /\ hist = [uploads |-> {}, ids |-> {}, stats |-> {}]
    /\ called_at = 0

\* The session: the page is loaded and the button not yet pressed.
Init ==
    /\ InitCommon
    /\ pc = "idle"
    /\ playlist \in SessionWorlds
    /\ days = SliderMin
    /\ video_ids = <<>>
    /\ df = <<>>

Next ==
    \/ \E c \in CHANNEL_OPTIONS, d \in DaysChoices, w \in Waits : Press(c, d, w)
    \/ \E o \in {"ok", "nomatch", "fail"} : GetUploads(o)
    \/ CallDiscovery
    \/ \E o \in {"ok", "fail"} : FetchPage(o)
    \/ CallStats
    \/ \E p \in {"all", "none", "fail"} : FetchBatch(p)
    \/ Render

Spec == Init /\ [][Next]_vars

----------------------------------------------------------------------------
(* get_recent_video_ids alone, on every small playlist *)

\* Publication instants around the cutoffs of one and two days.
AtChoices == {0 - Minute, 0 - Day, 0 - Day - 1, 0 - 2 * Day - 1}

ItemSeqs ==
    UNION { {[k \in 1..n |-> Item(k, at[k])] : at \in [1..n -> AtChoices]} :
            n \in 0..MaxItems }

\* The pages of `items` cut after the positions in `cuts`.
RECURSIVE Paged(_, _, _)
Paged(items, cuts, from) ==
    IF \E c \in cuts : c >= from
    THEN LET c == CHOOSE x \in cuts : x >= from /\ \A y \in cuts : y >= from => x <= y
         IN  <<SubSeq(items, from, c)>> \o Paged(items, cuts, c + 1)
    ELSE <<SubSeq(items, from, Len(items))>>

\* Every paging of every item sequence; the last page may be empty.
DiscoveryPlaylists ==
    UNION { UNION { {Paged(s, cuts, 1), Paged(s, cuts, 1) \o << <<>> >>} :
                    cuts \in SUBSET (1..(Len(s) - 1)) } :
            s \in ItemSeqs }

InitDiscovery ==
    /\ InitCommon
    /\ pc = "discover"
    /\ \E pl \in DiscoveryPlaylists : playlist = [u \in UploadsIds |-> pl]
    /\ days \in DaysChoices
    /\ video_ids = <<>>
    /\ df = <<>>

NextDiscovery ==
    \/ CallDiscovery
    \/ \E o \in {"ok", "fail"} : FetchPage(o)

SpecDiscovery == InitDiscovery /\ [][NextDiscovery]_vars

\* The loop runs on: no step of the script waits for anything but the
\* response to its own request.
SpecDiscoveryLive == SpecDiscovery /\ WF_vars(NextDiscovery)

----------------------------------------------------------------------------
(* get_video_stats alone, on identifier sequences of every length *)

\* Pairwise distinct identifiers; identifiers repeating every fifty
\* positions; identifiers repeating every three positions.
Pattern(p, k) ==
    CASE p = "distinct" -> k
      [] p = "cycle50" -> ((k - 1) % 50) + 1
      [] p = "cycle3" -> ((k - 1) % 3) + 1

StatsInputs ==
    { [k \in 1..n |-> Pattern(p, k)] :
        n \in 0..MaxN, p \in {"distinct", "cycle50", "cycle3"} }

InitStats ==
    /\ InitCommon
    /\ pc = "stats_call"
    /\ playlist = [u \in UploadsIds |-> << <<>> >>]
    /\ days = SliderMin
    /\ video_ids \in StatsInputs
    /\ df = <<>>

NextStats ==
    \/ CallStats
    \/ \E p \in {"all", "none", "odd", "fail"} : FetchBatch(p)

SpecStats == InitStats /\ [][NextStats]_vars

----------------------------------------------------------------------------
(* The rendering alone, on every small table *)

RowChoices ==
    { [view_count |-> 1000, like_count |-> 50],
      [view_count |-> 500, like_count |-> 20],
      [view_count |-> 10000, like_count |-> 5],
      [view_count |-> 500, like_count |-> 5],
      [view_count |-> 0, like_count |-> 0] }

Tables ==
    UNION { { [k \in 1..n |-> [video_id |-> k,
                               view_count |-> r[k].view_count,
                               like_count |-> r[k].like_count]] :
                r \in [1..n -> RowChoices] } :
            n \in 0..MaxRows }

InitRender ==
    /\ InitCommon
    /\ pc = "render"
    /\ playlist = [u \in UploadsIds |-> << <<>> >>]
    /\ days = SliderMin
    /\ video_ids = <<>>
    /\ df \in Tables

NextRender == Render

SpecRender == InitRender /\ [][NextRender]_vars

----------------------------------------------------------------------------
(* What the properties speak about *)

\* The items of an uploads playlist, concatenated over its pages.
ItemsOf(u) == Flatten(playlist[u])

\* The publication instant of the playlist item of video `id`.
PublishedAtOf(u, id) ==
    (CHOOSE it \in Range(ItemsOf(u)) : it.videoId = id).publishedAt

\* The requests of one kind issued in the current run.
Requests(kind) == SelectSeq(log, LAMBDA r : r.kind = kind)

\* The page that holds the n-th item of the playlist.
PageOfItem(pl, n) ==
    CHOOSE p \in DOMAIN pl :
        /\ Len(Flatten(SubSeq(pl, 1, p - 1))) < n
        /\ n <= Len(Flatten(SubSeq(pl, 1, p)))

\* get_recent_video_ids has returned to the script.
DiscoveryReturned == pc = "stats_call"

\* get_video_stats has returned to the script.
StatsReturned == pc = "render"

\* The history entry of the sequence get_recent_video_ids returned.
AnsweringEntries ==
    {e \in hist.ids : e.key = <<uploads_id, days>> /\ e.value = video_ids}

----------------------------------------------------------------------------
(* C1 *)

\* C1, as stated: whenever get_recent_video_ids returns, computed or from
\* the cache, no returned identifier belongs to an item published strictly
\* before (now - windowDays), now being the instant of that call.
C1_NeverOlderThanCallWindow ==
    DiscoveryReturned =>
        \A k \in DOMAIN video_ids :
            PublishedAtOf(uploads_id, video_ids[k]) >= called_at - days * 86400

\* C1, amended: whenever get_recent_video_ids returns, the returned sequence
\* was computed by a call that started at an instant t0 <= now and finished
\* less than 30 minutes before now, and no returned identifier belongs to an
\* item published strictly before (t0 - windowDays); a computed answer has
\* t0 = now.
C1_NeverOlderThanComputedWindow ==
    DiscoveryReturned =>
        \E e \in AnsweringEntries :
            /\ e.started <= called_at
            /\ called_at < e.t + 30 * 60
            /\ Requests("playlistItems") # <<>> => e.started = called_at
            /\ \A k \in DOMAIN video_ids :
                   PublishedAtOf(uploads_id, video_ids[k]) >= e.started - days * 86400

\* A cache answer holding an identifier that the call's own window excludes.
C1_Witness ==
    /\ DiscoveryReturned
    /\ Requests("playlistItems") = <<>>
    /\ \E k \in DOMAIN video_ids :
           PublishedAtOf(uploads_id, video_ids[k]) < called_at - days * 86400

----------------------------------------------------------------------------
(* C2 *)

ReverseChronological(items) ==
    \A j, k \in DOMAIN items : j < k => items[j].publishedAt >= items[k].publishedAt

OlderThanCutoff(items, cutoff) ==
    {k \in DOMAIN items : items[k].publishedAt < cutoff}

FirstOlder(items, cutoff) ==
    CHOOSE n \in OlderThanCutoff(items, cutoff) :
        \A m \in OlderThanCutoff(items, cutoff) : n <= m

\* C2: on a playlist in reverse-chronological order whose N-th item is the
\* first older than the cutoff, no page after the one holding the N-th item
\* is ever requested, and a call that returns has requested exactly the
\* pages up to that one and returns the identifiers of the first N-1 items
\* in order (none for N = 1).
C2_EarlyExit ==
    LET items == ItemsOf(uploads_id)
        cutoff == called_at - days * 86400
    IN  (pc \in {"page", "stats_call", "idle"}
           /\ ReverseChronological(items)
           /\ OlderThanCutoff(items, cutoff) # {}) =>
          LET n == FirstOlder(items, cutoff)
          IN  /\ Len(Requests("playlistItems")) <= PageOfItem(playlist[uploads_id], n)
              /\ DiscoveryReturned =>
                   /\ video_ids = [k \in 1..(n - 1) |-> items[k].videoId]
                   /\ Len(Requests("playlistItems")) =
                          PageOfItem(playlist[uploads_id], n)

\* The call returned on the N-th item, N >= 2, with a page left unrequested.
C2_Witness ==
    LET items == ItemsOf(uploads_id)
        cutoff == called_at - days * 86400
    IN  /\ DiscoveryReturned
        /\ ReverseChronological(items)
        /\ OlderThanCutoff(items, cutoff) # {}
        /\ FirstOlder(items, cutoff) >= 2
        /\ Len(Requests("playlistItems")) < Len(playlist[uploads_id])
        /\ Len(Flatten(SubSeq(playlist[uploads_id],
                              Len(Requests("playlistItems")) + 1,
                              Len(playlist[uploads_id])))) > 0

----------------------------------------------------------------------------
(* C9 *)

\* The response to the page request the loop is about to issue.
PendingPage == PlaylistItemsResponse(playlist[uploads_id], next_page_token)

\* A step of the loop that got its page.
PageAnswered ==
    /\ pc = "page"
    /\ Len(log') = Len(log) + 1
    /\ log'[Len(log')].outcome = "ok"

\* The page carries no continuation token or holds an item older than the
\* cutoff.
LastPage ==
    \/ PendingPage.nextPageToken = 0
    \/ OlderThanCutoff(PendingPage.items, published_after) # {}

\* C9: every call of get_recent_video_ids ends; it returns on the first page
\* that carries no continuation token or holds an item older than the
\* cutoff and goes on to the next page otherwise; on a playlist of P pages
\* it issues at most P page requests.
C9_Terminates ==
    /\ <>(pc \notin {"discover", "page"})
    /\ [][PageAnswered =>
            /\ LastPage => pc' = "stats_call"
            /\ ~LastPage => /\ pc' = "page"
                            /\ next_page_token' = PendingPage.nextPageToken]_vars
    /\ [](Len(Requests("playlistItems")) <= Len(playlist[uploads_id]))

\* The call returned after requesting every one of at least two pages.
C9_Witness ==
    /\ DiscoveryReturned
    /\ Len(playlist[uploads_id]) >= 2
    /\ Len(Requests("playlistItems")) = Len(playlist[uploads_id])

----------------------------------------------------------------------------
(* C3 *)

\* C3: when get_video_stats returns on n identifiers it has issued exactly
\* ceil(n/50) statistics requests, the k-th carrying positions 50(k-1)+1 to
\* min(50k, n) of the input, so that the requests concatenated are the
\* input; n = 0 issues no request and returns an empty table, n = 120 issues
\* requests of 50, 50 and 20 identifiers.
C3_Batches ==
    StatsReturned =>
        LET n == Len(video_ids)
            reqs == Requests("videos")
        IN  /\ Len(reqs) = (n + 49) \div 50
            /\ Len(log) = Len(reqs)
            /\ \A k \in DOMAIN reqs :
                   reqs[k].arg = SubSeq(video_ids, 50 * (k - 1) + 1, Min2(50 * k, n))
            /\ Flatten([k \in DOMAIN reqs |-> reqs[k].arg]) = video_ids
            /\ n = 0 => log = <<>> /\ df = <<>>
            /\ n = 120 => [k \in DOMAIN reqs |-> Len(reqs[k].arg)] = <<50, 50, 20>>

\* The call returned on 120 identifiers.
C3_Witness ==
    /\ StatsReturned
    /\ Len(video_ids) = 120
    /\ Len(Requests("videos")) = 3
    /\ Len(df) = 120

----------------------------------------------------------------------------
(* C4 *)

\* C4: the video_id values of the rows get_video_stats returns are pairwise
\* distinct.
C4_RowsUnique ==
    StatsReturned =>
        \A j, k \in DOMAIN df : j # k => df[j].video_id # df[k].video_id

----------------------------------------------------------------------------
(* C5 *)

\* The channel lookup of the current run matched no channel.
NoSuchChannel ==
    \E k \in DOMAIN log : log[k].kind = "channels" /\ log[k].outcome = "nomatch"

\* C5: once the channel lookup has reported no matching channel, the run is
\* over with the invalid-channel message as its only output, and the lookup
\* is the only remote request of the run.
C5_InvalidChannel ==
    NoSuchChannel =>
        /\ pc = "idle"
        /\ ui = [EmptyUI EXCEPT !.errors = <<InvalidChannelMsg>>]
        /\ Len(log) = 1

\* A second run that met the unknown channel.
C5_Witness ==
    /\ NoSuchChannel
    /\ runs = 2
    /\ ui.errors # <<>>

----------------------------------------------------------------------------
(* C6 *)

\* A request of the current run failed.
Failed(k) == log[k].outcome \in {"fail", "nomatch"}

\* C6: once a request of the run has failed, it is the last request of the
\* run, the run is over, exactly one error message is shown and neither the
\* success message, the cards, the chart nor the table.
C6_FailureAborts ==
    \A k \in DOMAIN log :
        Failed(k) =>
            /\ k = Len(log)
            /\ pc = "idle"
            /\ Len(ui.errors) = 1
            /\ ui.success = 0
            /\ ui.cards = <<>>
            /\ ui.chart = FALSE
            /\ ui.table = <<>>

\* The second statistics batch failed after the first had given rows.
C6_Witness ==
    /\ Len(Requests("videos")) = 2
    /\ Failed(Len(log))
    /\ rows # <<>>
    /\ pc = "idle"

----------------------------------------------------------------------------
(* C7 *)

\* The step issues exactly one remote request, of the given kind.
Issues(kind) ==
    /\ Len(log') = Len(log) + 1
    /\ SubSeq(log', 1, Len(log)) = log
    /\ log'[Len(log')].kind = kind

\* C7: a call of one of the three functions whose arguments were computed
\* on before, the computation having finished at t, is answered without any
\* remote request by the value computed then if the clock is before
\* t + 24 h (uploads playlist) or t + 30 min (video ids, statistics); from
\* t + TTL on it computes again, and every step of a computation issues a
\* remote request (get_video_stats on no identifier has none to issue).
C7_Memoized ==
    [][/\ pc = "uploads" =>
            \A e \in hist.uploads : e.key = channel =>
                IF clock < e.t + 24 * 60 * 60
                THEN log' = log /\ uploads_id' = e.value /\ pc' = "discover"
                ELSE Issues("channels")
       /\ pc = "discover" =>
            \A e \in hist.ids : e.key = <<uploads_id, days>> =>
                IF clock < e.t + 30 * 60
                THEN log' = log /\ video_ids' = e.value /\ pc' = "stats_call"
                ELSE log' = log /\ pc' = "page"
       /\ pc = "stats_call" =>
            \A e \in hist.stats : e.key = video_ids =>
                IF clock < e.t + 30 * 60
                THEN log' = log /\ df' = e.value /\ pc' = "render"
                ELSE /\ log' = log
                     /\ IF video_ids = <<>> THEN df' = <<>> /\ pc' = "render"
                                            ELSE pc' = "batch"
       /\ pc = "page" => Issues("playlistItems")
       /\ pc = "batch" => Issues("videos")]_vars

\* A run answered from the three caches: a table and no remote request.
C7_Witness ==
    /\ pc = "render"
    /\ runs = 2
    /\ log = <<>>
    /\ df # <<>>

----------------------------------------------------------------------------
(* C8 *)

\* The run ended in the no-data state.
NoData == pc = "idle" /\ ui.warning

\* C8: the run ends in the no-data state (the warning and nothing else: no
\* error, no success message, no cards, no chart, no table) only when the
\* playlist holds no item published within the window.
C8_NoDataOnlyWhenWindowEmpty ==
    NoData =>
        /\ ui = [EmptyUI EXCEPT !.warning = TRUE]
        /\ \A k \in DOMAIN ItemsOf(uploads_id) :
               ItemsOf(uploads_id)[k].publishedAt < called_at - days * 86400

----------------------------------------------------------------------------
(* C10 *)

\* The frame was rendered.
Rendered == pc = "idle" /\ ui.success > 0

ExampleTable ==
    << [video_id |-> 1, view_count |-> 1000, like_count |-> 50],
       [video_id |-> 2, view_count |-> 500, like_count |-> 20],
       [video_id |-> 3, view_count |-> 10000, like_count |-> 5] >>

IsRate(rate, num, den) == rate.den # 0 /\ rate.num * den = num * rate.den

\* C10: the cards of a rendered table of n rows are min(3, n) distinct rows
\* of it in non-increasing view_count order, and no row left out has more
\* views than a row shown; the table (1000,50), (500,20), (10000,5) gives
\* the cards 10000, 1000, 500 with like rates 5/10000, 50/1000, 20/500.
C10_Top3 ==
    Rendered =>
        LET cards == ui.cards
            shown == {cards[k].video_id : k \in DOMAIN cards}
        IN  /\ Len(cards) = Min2(3, Len(ui.table))
            /\ Len(ui.table) = ui.success
            /\ \A k \in DOMAIN cards : cards[k] \in Range(ui.table)
            /\ \A j, k \in DOMAIN cards : j # k => cards[j].video_id # cards[k].video_id
            /\ \A j, k \in DOMAIN cards :
                   j < k => cards[j].view_count >= cards[k].view_count
            /\ \A r \in Range(ui.table) : r.video_id \notin shown =>
                   \A k \in DOMAIN cards : r.view_count <= cards[k].view_count
            /\ [k \in DOMAIN df |->
                  [video_id |-> df[k].video_id, view_count |-> df[k].view_count,
                   like_count |-> df[k].like_count]] = ExampleTable =>
                   /\ [k \in DOMAIN cards |-> cards[k].view_count] = <<10000, 1000, 500>>
                   /\ IsRate(cards[1].like_rate, 5, 10000)
                   /\ IsRate(cards[2].like_rate, 50, 1000)
                   /\ IsRate(cards[3].like_rate, 20, 500)

\* Four rows rendered, two of them tied for the third card.
C10_Witness ==
    /\ Rendered
    /\ Len(ui.table) = 4
    /\ \E r \in Range(ui.table) :
           /\ r.video_id \notin {ui.cards[k].video_id : k \in DOMAIN ui.cards}
           /\ r.view_count = ui.cards[3].view_count

=============================================================================
